---- MODULE Spec2Model ----
(***************************************************************************)
(* Model of src/A4/a4.py: the s2cloudless cloud / shadow mask pipeline.    *)
(*                                                                         *)
(* An image is a record with a sequence of named bands; every band is a    *)
(* function from the pixel positions of a w x h grid to integers.  The     *)
(* Earth Engine operations the script calls (gt, lt, neq, multiply, add,   *)
(* addBands, select, focalMin, focalMax, Join.saveFirst, the filters) are  *)
(* operators that compute what the operation computes.  The script builds  *)
(* the expression in a fixed order; the model evaluates it in that order.  *)
(* The directional distance transform is computed by the remote service:   *)
(* its answer is a field of the remote scene (ddt_mask), unconstrained.    *)
(***************************************************************************)
EXTENDS Integers, Sequences, FiniteSets, TLC

VARIABLES pc, error, s2_sr, s2_prb, col, disp, k, cur, is_cld_shdw, eroded,
          ddt, layer, m, ret

vars == <<pc, error, s2_sr, s2_prb, col, disp, k, cur, is_cld_shdw, eroded,
          ddt, layer, m, ret>>

(* ---------------- parameters of the script (a4.py:18-25) -------------- *)
AOI == [lon |-> 8642, lat |-> 49877]      \* millidegrees
START_DATE == 20240603
END_DATE == 20240604
CLOUD_FILTER == 60
CLD_PRB_THRESH == 50
NIR_DRK_THRESH == 15                      \* hundredths: 0.15
SR_BAND_SCALE == 10000
CLD_PRJ_DIST == 1
BUFFER == 50

(* ---------------- bounds of the inputs --------------------------------- *)
GridW == 7
GridH == 5
MaxProb == 100
MaxAzimuth == 359
MaxSCL == 11

Ids == <<"A", "B", "C", "D">>

(* ---------------- pixel grids ------------------------------------------ *)
Pos(w, h) == (1..w) \X (1..h)

Const(w, h, v) == [q \in Pos(w, h) |-> v]

SetMin(S) == CHOOSE x \in S : \A y \in S : x <= y

SetMax(S) == CHOOSE x \in S : \A y \in S : x >= y

(* ee.Image.gt / lt / neq against a constant: 1 where the relation holds *)
gt(px, c) == [q \in DOMAIN px |-> IF px[q] > c THEN 1 ELSE 0]

lt(px, c) == [q \in DOMAIN px |-> IF px[q] < c THEN 1 ELSE 0]

neq(px, c) == [q \in DOMAIN px |-> IF px[q] # c THEN 1 ELSE 0]

multiply(px1, px2) == [q \in DOMAIN px1 |-> px1[q] * px2[q]]

add(px1, px2) == [q \in DOMAIN px1 |-> px1[q] + px2[q]]

(* circle kernel of the focal operations, radius in pixels *)
Kernel(r) == {d \in (-r..r) \X (-r..r) : d[1] * d[1] + d[2] * d[2] <= r * r}

Neigh(q, r, w, h) ==
    {<<q[1] + d[1], q[2] + d[2]>> : d \in Kernel(r)} \cap Pos(w, h)

(* focalMin / focalMax: pixels outside the footprint are masked and skipped *)
focalMin(px, r, w, h) ==
    [q \in Pos(w, h) |-> SetMin({px[n] : n \in Neigh(q, r, w, h)})]

focalMax(px, r, w, h) ==
    [q \in Pos(w, h) |-> SetMax({px[n] : n \in Neigh(q, r, w, h)})]

(* ---------------- images ------------------------------------------------ *)
BandNames(img) == [i \in 1..Len(img.bands) |-> img.bands[i].name]

NameSet(img) == {img.bands[i].name : i \in 1..Len(img.bands)}

HasBand(img, n) == n \in NameSet(img)

(* img.select(n): the pixels of the first band of that name *)
select(img, n) ==
    img.bands[CHOOSE i \in 1..Len(img.bands) :
                 /\ img.bands[i].name = n
                 /\ \A j \in 1..(i - 1) : img.bands[j].name # n].px

rename(px, n) == [name |-> n, px |-> px]

(* img.addBands(src) with overwrite = False: the bands of img are copied,  *)
(* the bands of src are appended; a name already taken gets a suffix.      *)
RECURSIVE AppendBands(_, _)
AppendBands(bands, new) ==
    IF new = <<>> THEN bands
    ELSE LET b == Head(new)
             taken == {bands[i].name : i \in 1..Len(bands)}
             nb == IF b.name \in taken
                   THEN [b EXCEPT !.name = b.name \o "_1"]
                   ELSE b
         IN AppendBands(Append(bands, nb), Tail(new))

(* variant: the source bands replace the bands of img *)
addBands_replacing(img, new) == [img EXCEPT !.bands = new]

addBands(img, new) == [img EXCEPT !.bands = AppendBands(img.bands, new)]

(* ---------------- get_s2_sr_cld_col (a4.py:27-59) ----------------------- *)
filterBounds(c, aoi) ==
    SelectSeq(c, LAMBDA s : /\ s.footprint.w <= aoi.lon
                            /\ aoi.lon <= s.footprint.e
                            /\ s.footprint.s <= aoi.lat
                            /\ aoi.lat <= s.footprint.n)

(* start inclusive, end exclusive *)
filterDate(c, start, end) ==
    SelectSeq(c, LAMBDA s : start <= s.day /\ s.day < end)

filterCloudy(c) ==
    SelectSeq(c, LAMBDA s : s.CLOUDY_PIXEL_PERCENTAGE <= CLOUD_FILTER)

Matches(s, secondary) ==
    SelectSeq(secondary, LAMBDA t : t.index = s.index)

(* variant: outer join, a scene without a match is kept *)
saveFirst_outer(primary, secondary) ==
    [i \in 1..Len(primary) |->
        [primary[i] EXCEPT !.s2cloudless =
            IF Matches(primary[i], secondary) = <<>> THEN <<>>
            ELSE <<Head(Matches(primary[i], secondary))>>]]

(* ee.Join.saveFirst(key): inner join, the first match saved on the scene *)
saveFirst(primary, secondary) ==
    LET kept == SelectSeq(primary, LAMBDA s : Matches(s, secondary) # <<>>)
    IN [i \in 1..Len(kept) |->
          [kept[i] EXCEPT !.s2cloudless = <<Head(Matches(kept[i], secondary))>>]]

get_s2_sr_cld_col_op(sr, prb, aoi, start_date, end_date) ==
    LET s2_sr_col == filterCloudy(filterDate(filterBounds(sr, aoi),
                                             start_date, end_date))
        s2_cloudless_col == filterDate(filterBounds(prb, aoi),
                                       start_date, end_date)
    IN saveFirst(s2_sr_col, s2_cloudless_col)

(* ---------------- add_cloud_bands (a4.py:63-82) ------------------------- *)
(* variant: the threshold itself counts as cloud *)
add_cloud_bands_gte(img) ==
    LET cld_prb == select(img.s2cloudless[1], "probability")
        is_cloud == gt(cld_prb, CLD_PRB_THRESH - 1)
    IN addBands(img, <<rename(cld_prb, "probability"),
                       rename(is_cloud, "clouds")>>)

(* variant: the cloud step has not run when the shadow step starts *)
add_cloud_bands_not_run(img) == img

add_cloud_bands(img) ==
    LET cld_prb == select(img.s2cloudless[1], "probability")
        is_cloud == gt(cld_prb, CLD_PRB_THRESH)
    IN addBands(img, <<rename(cld_prb, "probability"),
                       rename(is_cloud, "clouds")>>)

(* ---------------- add_shadow_bands (a4.py:86-120) ----------------------- *)
DarkThreshold == (NIR_DRK_THRESH * SR_BAND_SCALE) \div 100

(* variant: the water mask is not applied *)
dark_pixels_ignoring_water(img) == lt(select(img, "B8"), DarkThreshold)

dark_pixels_of(img) ==
    LET not_water == neq(select(img, "SCL"), 6)
    IN multiply(lt(select(img, "B8"), DarkThreshold), not_water)

(* variant: the angle is normalised to [0, 360) *)
shadow_azimuth_wrapped(img) == (90 - img.MEAN_SOLAR_AZIMUTH_ANGLE) % 360

shadow_azimuth_of(img) == 90 - img.MEAN_SOLAR_AZIMUTH_ANGLE

add_shadow_bands(img) ==
    LET dark_pixels == dark_pixels_of(img)
        cld_proj == img.ddt_mask
        shadows == multiply(cld_proj, dark_pixels)
    IN addBands(img, <<rename(dark_pixels, "dark_pixels"),
                       rename(cld_proj, "cloud_transform"),
                       rename(shadows, "shadows")>>)

(* ---------------- add_cld_shdw_mask (a4.py:122-145) --------------------- *)
(* variant: both flags are required *)
combine_and(img) == multiply(select(img, "clouds"), select(img, "shadows"))

combine(img) == gt(add(select(img, "clouds"), select(img, "shadows")), 0)

ErodeRadius == 2

DilateRadius == (BUFFER * 2) \div 20

(* variant: no erosion *)
erode_skipped(px, w, h) == px

erode(px, w, h) == focalMin(px, ErodeRadius, w, h)

dilate(px, w, h) == focalMax(px, DilateRadius, w, h)

(* ---------------- display_cloud_layers (a4.py:178-223) ------------------ *)
Layers == <<
    [needs |-> {"B4", "B3", "B2"}, name |-> "S2 image", show |-> TRUE, opacity |-> 10],
    [needs |-> {"probability"}, name |-> "probability (cloud)", show |-> FALSE, opacity |-> 10],
    [needs |-> {"clouds"}, name |-> "clouds", show |-> FALSE, opacity |-> 10],
    [needs |-> {"cloud_transform"}, name |-> "cloud_transform", show |-> FALSE, opacity |-> 10],
    [needs |-> {"dark_pixels"}, name |-> "dark_pixels", show |-> FALSE, opacity |-> 10],
    [needs |-> {"shadows"}, name |-> "shadows", show |-> FALSE, opacity |-> 10],
    [needs |-> {"cloudmask"}, name |-> "cloudmask", show |-> TRUE, opacity |-> 5] >>

(* col.mosaic(): the band names of the composite; no bands when col is empty *)
mosaic_bands(c) == IF c = <<>> THEN {} ELSE NameSet(c[1])

(* ---------------- an uncaught exception ---------------------------------- *)
(* Nothing in a4.py catches: the frame's locals are dropped, the run ends.  *)
(* variant: the error is recorded and the step is run again *)
Raise_and_retry(e) ==
    /\ error' = e
    /\ UNCHANGED <<pc, s2_sr, s2_prb, col, disp, k, cur, is_cld_shdw, eroded,
                   ddt, layer, m, ret>>

Raise(e) ==
    /\ pc' = "failed"
    /\ error' = e
    /\ cur' = <<>>
    /\ is_cld_shdw' = <<>>
    /\ eroded' = <<>>
    /\ m' = <<>>
    /\ UNCHANGED <<s2_sr, s2_prb, col, disp, k, ddt, layer, ret>>

(* ---------------- the inputs --------------------------------------------- *)
Near == [w |-> 8000, e |-> 9500, s |-> 49500, n |-> 50500]

Far == [w |-> 11000, e |-> 12500, s |-> 47000, n |-> 48000]

Good == [cloudy |-> CLOUD_FILTER, day |-> START_DATE, fp |-> Near]

Cloudy == [cloudy |-> CLOUD_FILTER + 1, day |-> START_DATE, fp |-> Near]

Late == [cloudy |-> CLOUD_FILTER, day |-> END_DATE, fp |-> Near]

Early == [cloudy |-> CLOUD_FILTER, day |-> START_DATE - 1, fp |-> Near]

Away == [cloudy |-> CLOUD_FILTER, day |-> START_DATE, fp |-> Far]

SrScene(id, attr, w, h, r, c, az, proj) ==
    [index |-> id, CLOUDY_PIXEL_PERCENTAGE |-> attr.cloudy, day |-> attr.day,
     footprint |-> attr.fp, MEAN_SOLAR_AZIMUTH_ANGLE |-> az, w |-> w, h |-> h,
     bands |-> <<rename(Const(w, h, 400), "B2"), rename(Const(w, h, 600), "B3"),
                 rename(Const(w, h, 500), "B4"), rename(r, "B8"),
                 rename(c, "SCL")>>,
     s2cloudless |-> <<>>, ddt_mask |-> proj]

PrbScene(id, attr, w, h, p) ==
    [index |-> id, day |-> attr.day, footprint |-> attr.fp, w |-> w, h |-> h,
     bands |-> <<rename(p, "probability")>>]

(* one pixel, every value of one quantity at a time *)
PixelValues ==
    {[p |-> p, r |-> r, c |-> c, a |-> 150, t |-> t] :
        p \in 0..MaxProb, r \in {1499, 1500}, c \in {4, 6}, t \in {0, 1}}
    \cup
    {[p |-> p, r |-> r, c |-> c, a |-> 150, t |-> t] :
        p \in {CLD_PRB_THRESH, CLD_PRB_THRESH + 1},
        r \in {0, 1499, 1500, 1501, SR_BAND_SCALE}, c \in 0..MaxSCL, t \in {0, 1}}
    \cup
    {[p |-> 80, r |-> 1000, c |-> 4, a |-> a, t |-> 1] : a \in 0..MaxAzimuth}

PixelInputs ==
    {[sr |-> <<SrScene("A", Good, 1, 1, Const(1, 1, v.r), Const(1, 1, v.c),
                       v.a, Const(1, 1, v.t))>>,
      prb |-> <<PrbScene("A", Good, 1, 1, Const(1, 1, v.p))>>] : v \in PixelValues}

(* the 3 x 3 scene: any set of cloudy pixels (probability 80, the others  *)
(* 10), bright everywhere, so that no pixel is a shadow                    *)
SmallPixels == Pos(3, 3)

SmallInputs ==
    {[sr |-> <<SrScene("A", Good, 3, 3, Const(3, 3, 3000), Const(3, 3, 4), 150,
                       Const(3, 3, 1))>>,
      prb |-> <<PrbScene("A", Good, 3, 3,
                         [q \in SmallPixels |-> IF q \in S THEN 80 ELSE 10])>>] :
        S \in SUBSET SmallPixels}

(* a larger scene: no cloud, one cloudy pixel, a cloudy disc, a disc and a  *)
(* pixel; dark land with one water pixel, the transform's answer varying   *)
GridPixels == Pos(GridW, GridH)

Disc == {q \in GridPixels : (q[1] - 3) * (q[1] - 3) + (q[2] - 3) * (q[2] - 3) <= 4}

CloudSets ==
    {{}} \cup {{q} : q \in GridPixels} \cup {Disc \cup {q} : q \in GridPixels}

Checker == [q \in GridPixels |-> (q[1] + q[2]) % 2]

GridInputs ==
    {[sr |-> <<SrScene("A", Good, GridW, GridH, Const(GridW, GridH, r),
                       [q \in GridPixels |-> IF q = <<1, 1>> THEN 6 ELSE 4],
                       150, proj)>>,
      prb |-> <<PrbScene("A", Good, GridW, GridH,
                         [q \in GridPixels |-> IF q \in S THEN 80 ELSE 10])>>] :
        S \in CloudSets, r \in {1000, 3000},
        proj \in {Checker, Const(GridW, GridH, 0)} \cup
                 {[q \in GridPixels |-> IF q = z THEN 1 ELSE 0] :
                     z \in {<<1, 1>>, <<GridW, GridH>>}}}

(* the catalogues: which scene identifiers each remote collection holds *)
AttrChoices(id) ==
    IF id = "A" THEN {Good, Cloudy, Late, Early, Away}
    ELSE IF id = "B" THEN {Good, Cloudy}
    ELSE {Good}

Catalogue(present, attr, isSr) ==
    LET ids == SelectSeq(Ids, LAMBDA id : id \in present)
    IN [i \in 1..Len(ids) |->
          IF isSr
          THEN SrScene(ids[i], attr[ids[i]], 1, 1, Const(1, 1, 1000),
                       Const(1, 1, 4), 150, Const(1, 1, 1))
          ELSE PrbScene(ids[i], attr[ids[i]], 1, 1, Const(1, 1, 80))]

IdSet == {Ids[i] : i \in 1..Len(Ids)}

JoinInputs ==
    {[sr |-> Catalogue(S, attr, TRUE), prb |-> Catalogue(P, attr, FALSE)] :
        S \in SUBSET IdSet, P \in SUBSET IdSet,
        attr \in {f \in [IdSet -> {Good, Cloudy, Late, Early, Away}] :
                     \A id \in IdSet : f[id] \in AttrChoices(id)}}

Inputs == PixelInputs \cup SmallInputs \cup GridInputs \cup JoinInputs

(* ---------------- the state machine -------------------------------------- *)
Init ==
    /\ \E in \in Inputs : s2_sr = in.sr /\ s2_prb = in.prb
    /\ pc = "authenticate"
    /\ error = "none"
    /\ col = <<>>
    /\ disp = <<>>
    /\ k = 1
    /\ cur = <<>>
    /\ is_cld_shdw = <<>>
    /\ eroded = <<>>
    /\ ddt = <<>>
    /\ layer = 1
    /\ m = <<>>
    /\ ret = "NoCall"

(* a4.py:12 *)
Authenticate ==
    /\ pc = "authenticate"
    /\ pc' = "initialize"
    /\ UNCHANGED <<error, s2_sr, s2_prb, col, disp, k, cur, is_cld_shdw, eroded, ddt,
                   layer, m, ret>>

(* a4.py:15 *)
Initialize ==
    /\ pc = "initialize"
    /\ pc' = "get_col"
    /\ UNCHANGED <<error, s2_sr, s2_prb, col, disp, k, cur, is_cld_shdw, eroded, ddt,
                   layer, m, ret>>

(* a4.py:61 *)
get_s2_sr_cld_col ==
    /\ pc = "get_col"
    /\ col' = get_s2_sr_cld_col_op(s2_sr, s2_prb, AOI, START_DATE, END_DATE)
    /\ pc' = "map"
    /\ UNCHANGED <<error, s2_sr, s2_prb, disp, k, cur, is_cld_shdw, eroded, ddt,
                   layer, m, ret>>

(* a4.py:226 with a4.py:134: the callback is entered for scene k *)
AddCloudBands ==
    /\ pc = "map"
    /\ k <= Len(col)
    /\ IF col[k].s2cloudless # <<>> /\ HasBand(col[k].s2cloudless[1], "probability")
       THEN /\ cur' = <<add_cloud_bands(col[k])>>
            /\ pc' = "add_shadow_bands"
            /\ UNCHANGED <<error, s2_sr, s2_prb, col, disp, k, is_cld_shdw, eroded,
                           ddt, layer, m, ret>>
       ELSE Raise("select: probability")

(* a4.py:135 *)
AddShadowBands ==
    /\ pc = "add_shadow_bands"
    /\ IF \A n \in {"SCL", "B8", "clouds"} : HasBand(cur[1], n)
       THEN /\ ddt' = <<[angle |-> shadow_azimuth_of(cur[1]),
                         distance |-> CLD_PRJ_DIST * 10, scale |-> 100]>>
            /\ cur' = <<add_shadow_bands(cur[1])>>
            /\ pc' = "combine"
            /\ UNCHANGED <<error, s2_sr, s2_prb, col, disp, k, is_cld_shdw, eroded,
                           layer, m, ret>>
       ELSE Raise("select: SCL, B8, clouds")

(* a4.py:138 *)
Combine ==
    /\ pc = "combine"
    /\ IF \A n \in {"clouds", "shadows"} : HasBand(cur[1], n)
       THEN /\ is_cld_shdw' = <<combine(cur[1])>>
            /\ pc' = "buffer"
            /\ UNCHANGED <<error, s2_sr, s2_prb, col, disp, k, cur, eroded, ddt,
                           layer, m, ret>>
       ELSE Raise("select: clouds, shadows")

(* a4.py:141: focalMin(2) *)
Erode ==
    /\ pc = "buffer"
    /\ eroded' = <<erode(is_cld_shdw[1], cur[1].w, cur[1].h)>>
    /\ pc' = "dilate"
    /\ UNCHANGED <<error, s2_sr, s2_prb, col, disp, k, cur, is_cld_shdw, ddt,
                   layer, m, ret>>

(* a4.py:141-145: focalMax(BUFFER*2/20), rename, addBands; the callback    *)
(* returns and the mapped collection gets the image                        *)
DilateAndAttach ==
    /\ pc = "dilate"
    /\ LET mask == dilate(eroded[1], cur[1].w, cur[1].h)
       IN disp' = Append(disp, addBands(cur[1], <<rename(mask, "cloudmask")>>))
    /\ cur' = <<>>
    /\ is_cld_shdw' = <<>>
    /\ eroded' = <<>>
    /\ k' = k + 1
    /\ pc' = "map"
    /\ UNCHANGED <<error, s2_sr, s2_prb, col, ddt, layer, m, ret>>

(* a4.py:226-231: the collection is mapped, the script ends *)
EndOfScript ==
    /\ pc = "map"
    /\ k > Len(col)
    /\ pc' = "end_of_script"
    /\ UNCHANGED <<error, s2_sr, s2_prb, col, disp, k, cur, is_cld_shdw, eroded, ddt,
                   layer, m, ret>>

(* a4.py:178-199: a caller of the module calls display_cloud_layers(col) *)
DisplayCloudLayers ==
    /\ pc = "end_of_script"
    /\ m' = <<[name |-> "Map", show |-> TRUE, opacity |-> 10]>>
    /\ layer' = 1
    /\ pc' = "layers"
    /\ UNCHANGED <<error, s2_sr, s2_prb, col, disp, k, cur, is_cld_shdw, eroded, ddt, ret>>

(* a4.py:150-174 called from a4.py:202-220 *)
AddEeLayer ==
    /\ pc = "layers"
    /\ layer <= Len(Layers)
    /\ IF Layers[layer].needs \subseteq mosaic_bands(disp)
       THEN /\ m' = Append(m, [name |-> Layers[layer].name,
                               show |-> Layers[layer].show,
                               opacity |-> Layers[layer].opacity])
            /\ layer' = layer + 1
            /\ UNCHANGED <<pc, error, s2_sr, s2_prb, col, disp, k, cur,
                           is_cld_shdw, eroded, ddt, ret>>
       ELSE Raise("getMapId: no such band")

(* a4.py:223 *)
AddLayerControl ==
    /\ pc = "layers"
    /\ layer > Len(Layers)
    /\ m' = Append(m, [name |-> "LayerControl", show |-> TRUE, opacity |-> 10])
    /\ pc' = "return"
    /\ UNCHANGED <<error, s2_sr, s2_prb, col, disp, k, cur, is_cld_shdw, eroded, ddt,
                   layer, ret>>

(* a4.py:223: the function body ends without a return statement *)
Return ==
    /\ pc = "return"
    /\ ret' = "None"
    /\ m' = <<>>
    /\ pc' = "returned"
    /\ UNCHANGED <<error, s2_sr, s2_prb, col, disp, k, cur, is_cld_shdw, eroded, ddt, layer>>

(* a round trip to the remote service fails: ee.Authenticate (a4.py:12),   *)
(* ee.Initialize (a4.py:15), getInfo at the start of display_cloud_layers  *)
(* (a4.py:198, position "end_of_script"), getMapId of a layer (a4.py:164)  *)
RemoteSteps == {"authenticate", "initialize", "end_of_script", "layers"}

Fail ==
    /\ pc \in RemoteSteps
    /\ pc = "layers" => layer <= Len(Layers)
    /\ Raise("remote call failed")

Next ==
    \/ Authenticate
    \/ Initialize
    \/ get_s2_sr_cld_col
    \/ AddCloudBands
    \/ AddShadowBands
    \/ Combine
    \/ Erode
    \/ DilateAndAttach
    \/ EndOfScript
    \/ DisplayCloudLayers
    \/ AddEeLayer
    \/ AddLayerControl
    \/ Return
    \/ Fail

Spec == Init /\ [][Next]_vars

(* ======================= properties ====================================== *)
IsPrefix(s, t) == Len(s) <= Len(t) /\ SubSeq(t, 1, Len(s)) = s

(* the images that exist in the state: the one in the callback, the mapped *)
Images == {disp[i] : i \in 1..Len(disp)} \cup {cur[i] : i \in 1..Len(cur)}

Pixels(img) == Pos(img.w, img.h)

Derived == <<"probability", "clouds", "dark_pixels", "cloud_transform",
             "shadows", "cloudmask">>

(* C1: for every pixel probability p in [0,100] the "clouds" band is 1 if  *)
(* and only if p > CLD_PRB_THRESH (50); p = 50 gives 0.                    *)
C1_CloudIffAboveThreshold ==
    \A img \in Images : HasBand(img, "clouds") =>
        LET p == select(img.s2cloudless[1], "probability")
            c == select(img, "clouds")
        IN /\ select(img, "probability") = p
           /\ \A q \in Pixels(img) : p[q] \in 0..100 =>
                 /\ c[q] \in {0, 1}
                 /\ c[q] = 1 <=> p[q] > 50
                 /\ p[q] = CLD_PRB_THRESH => c[q] = 0

C1_Witness ==
    \E i \in 1..Len(disp) : \E q \in Pixels(disp[i]) :
        /\ select(disp[i], "probability")[q] = 50
        /\ select(disp[i], "clouds")[q] = 0

(* C2: the "dark_pixels" band is 1 if and only if the near-infrared        *)
(* reflectance is below 1500 and the class is not water (6); a water pixel *)
(* is never dark, whatever the reflectance.                                *)
C2_DarkIffBelowAndNotWater ==
    \A img \in Images : HasBand(img, "dark_pixels") =>
        LET r == select(img, "B8")
            c == select(img, "SCL")
            d == select(img, "dark_pixels")
        IN \A q \in Pixels(img) :
              /\ d[q] \in {0, 1}
              /\ d[q] = 1 <=> (r[q] < 1500 /\ c[q] # 6)
              /\ c[q] = 6 => d[q] = 0

C2_Witness ==
    \E i \in 1..Len(disp) : \E q \in Pixels(disp[i]) :
        /\ select(disp[i], "SCL")[q] = 6
        /\ select(disp[i], "B8")[q] < 1500
        /\ select(disp[i], "dark_pixels")[q] = 0

(* C3: the joined collection holds exactly the filtered surface-reflectance *)
(* scenes whose identifier also occurs in the filtered probability         *)
(* collection, each with its one matched record; unmatched scenes and      *)
(* unmatched probability records are left out and no error is raised       *)
(* ({A,B,C} joined with {A,B,D} gives {A,B}).                              *)
InAoiAndDates(s) ==
    /\ s.footprint.w <= 8642 /\ 8642 <= s.footprint.e
    /\ s.footprint.s <= 49877 /\ 49877 <= s.footprint.n
    /\ s.day = 20240603

IndexSet(c) == {c[i].index : i \in 1..Len(c)}

Joined == pc \notin {"authenticate", "initialize", "get_col", "failed"}

C3_JoinIsInner ==
    Joined =>
        LET srOk == {s2_sr[i].index : i \in {j \in 1..Len(s2_sr) :
                        /\ InAoiAndDates(s2_sr[j])
                        /\ s2_sr[j].CLOUDY_PIXEL_PERCENTAGE <= 60}}
            prbOk == {s2_prb[i].index : i \in {j \in 1..Len(s2_prb) :
                        InAoiAndDates(s2_prb[j])}}
        IN /\ IndexSet(col) = srOk \cap prbOk
           /\ Len(col) = Cardinality(srOk \cap prbOk)
           /\ \A i \in 1..Len(col) :
                 /\ Len(col[i].s2cloudless) = 1
                 /\ col[i].s2cloudless[1].index = col[i].index
                 /\ \E j \in 1..Len(s2_prb) : s2_prb[j] = col[i].s2cloudless[1]
                 /\ \E j \in 1..Len(s2_sr) :
                       s2_sr[j] = [col[i] EXCEPT !.s2cloudless = <<>>]
           /\ error = "none"
           /\ (srOk = {"A", "B", "C"} /\ prbOk = {"A", "B", "D"})
                 => IndexSet(col) = {"A", "B"}

C3_Witness ==
    /\ pc = "map"
    /\ IndexSet(s2_sr) = {"A", "B", "C"}
    /\ IndexSet(s2_prb) = {"A", "B", "D"}
    /\ \A i \in 1..3 : InAoiAndDates(s2_sr[i]) /\ InAoiAndDates(s2_prb[i])
    /\ \A i \in 1..3 : s2_sr[i].CLOUDY_PIXEL_PERCENTAGE <= 60
    /\ IndexSet(col) = {"A", "B"}
    /\ error = "none"

(* C4: before the morphological filtering the combined flag of a pixel is  *)
(* 1 if and only if its cloud flag or its shadow flag is 1; a pixel with   *)
(* at least the flags of another never has a smaller combined flag.        *)
C4_CombineIsOr ==
    pc \in {"buffer", "dilate"} =>
        LET c == select(cur[1], "clouds")
            s == select(cur[1], "shadows")
            u == is_cld_shdw[1]
        IN /\ \A q \in Pixels(cur[1]) :
                 /\ u[q] \in {0, 1}
                 /\ u[q] = 1 <=> (c[q] = 1 \/ s[q] = 1)
           /\ \A q1, q2 \in Pixels(cur[1]) :
                 (c[q1] <= c[q2] /\ s[q1] <= s[q2]) => u[q1] <= u[q2]

C4_Witness ==
    /\ pc = "buffer"
    /\ \E q \in Pixels(cur[1]) :
          /\ select(cur[1], "clouds")[q] = 0
          /\ select(cur[1], "shadows")[q] = 1
          /\ is_cld_shdw[1][q] = 1
    /\ \E q \in Pixels(cur[1]) :
          /\ select(cur[1], "clouds")[q] = 1
          /\ select(cur[1], "shadows")[q] = 0
          /\ is_cld_shdw[1][q] = 1

(* the true pixels of the combined mask of an image, from its bands *)
TruePixels(img) ==
    LET c == select(img, "clouds")
        s == select(img, "shadows")
    IN {q \in Pixels(img) : c[q] = 1 \/ s[q] = 1}

Within(img, q, r) ==
    {n \in Pixels(img) :
        (n[1] - q[1]) * (n[1] - q[1]) + (n[2] - q[2]) * (n[2] - q[2]) <= r * r}

(* the true pixels with no other true pixel within the erosion kernel, and *)
(* with at least one other pixel of the scene in that kernel               *)
IsolatedPixels(img) ==
    LET T == TruePixels(img)
    IN {q \in T : Within(img, q, 2) # {q} /\ Within(img, q, 2) \cap T = {q}}

Scenario3x3(img) ==
    /\ img.w = 3 /\ img.h = 3
    /\ \A q \in Pixels(img) :
          /\ select(img, "probability")[q] = (IF q = <<2, 2>> THEN 80 ELSE 10)
          /\ select(img, "shadows")[q] = 0

ScenarioResult(img) ==
    Scenario3x3(img) =>
        /\ \A q \in Pixels(img) : select(img, "clouds")[q] = 1 <=> q = <<2, 2>>
        /\ \A q \in Pixels(img) : select(img, "cloudmask")[q] = 0

(* C5 as stated: the 3x3 scene with a cloudy centre gets an empty          *)
(* cloudmask, and in general an isolated true pixel of the combined mask   *)
(* is absent from the final cloudmask.                                     *)
C5_IsolatedPixelNeverRestored ==
    \A i \in 1..Len(disp) :
        /\ ScenarioResult(disp[i])
        /\ LET cm == select(disp[i], "cloudmask")
           IN \A q \in IsolatedPixels(disp[i]) : cm[q] = 0

(* C5 amended: the 3x3 scene with a cloudy centre gets an empty cloudmask; *)
(* an isolated true pixel is removed by the erosion; the final cloudmask   *)
(* is 1 exactly within 5 pixels of a pixel that survives the erosion, so   *)
(* the isolated pixel stays removed when no such pixel is within 5 pixels  *)
(* of it, in particular when it is the only true pixel of the scene.       *)
C5_State ==
    /\ pc = "dilate" =>
          LET u == is_cld_shdw[1]
              e == eroded[1]
          IN /\ \A q \in IsolatedPixels(cur[1]) : u[q] = 1 /\ e[q] = 0
             /\ \A n \in Pixels(cur[1]) :
                   e[n] = 1 <=> \A n2 \in Within(cur[1], n, 2) : u[n2] = 1
    /\ \A i \in 1..Len(disp) :
          /\ ScenarioResult(disp[i])
          /\ (Cardinality(TruePixels(disp[i])) = 1
                 /\ IsolatedPixels(disp[i]) = TruePixels(disp[i]))
                => \A q \in Pixels(disp[i]) : select(disp[i], "cloudmask")[q] = 0

C5_Step ==
    pc = "dilate" =>
        LET e == eroded[1]
            cm == select(disp'[Len(disp')], "cloudmask")
        IN \A q \in Pixels(cur[1]) :
              cm[q] = 1 <=> \E n \in Within(cur[1], q, 5) : e[n] = 1

C5_IsolatedPixelRemovedUnlessCovered == [](C5_State) /\ [][C5_Step]_vars

C5_Witness ==
    /\ \E i \in 1..Len(disp) :
          /\ Scenario3x3(disp[i])
          /\ IsolatedPixels(disp[i]) = {<<2, 2>>}
          /\ \A q \in Pixels(disp[i]) : select(disp[i], "cloudmask")[q] = 0

(* C6: across the steps of the per-scene pipeline the bands of the scene   *)
(* only grow: every step keeps the bands it received, unchanged and in     *)
(* place, and appends new names; the finished record has the original      *)
(* bands followed by probability, clouds, dark_pixels, cloud_transform,    *)
(* shadows and cloudmask.                                                  *)
StageNames ==
    IF pc = "add_shadow_bands" THEN SubSeq(Derived, 1, 2)
    ELSE SubSeq(Derived, 1, 5)

C6_State ==
    /\ cur # <<>> =>
          /\ IsPrefix(col[k].bands, cur[1].bands)
          /\ BandNames(cur[1]) = BandNames(col[k]) \o StageNames
    /\ Len(disp) <= Len(col)
    /\ \A i \in 1..Len(disp) :
          /\ IsPrefix(col[i].bands, disp[i].bands)
          /\ BandNames(disp[i]) = BandNames(col[i]) \o Derived

C6_Step ==
    /\ (cur # <<>> /\ cur' # <<>>) => IsPrefix(cur[1].bands, cur'[1].bands)
    /\ (cur # <<>> /\ Len(disp') > Len(disp)) =>
          IsPrefix(cur[1].bands, disp'[Len(disp')].bands)
    /\ pc' # "failed" => IsPrefix(disp, disp')

C6_BandsOnlyGrow == [](C6_State) /\ [][C6_Step]_vars

C6_Witness ==
    /\ Len(disp) >= 1
    /\ BandNames(disp[1]) = <<"B2", "B3", "B4", "B8", "SCL">> \o Derived
    /\ select(disp[1], "B8") = select(col[1], "B8")

(* C7: the cloud step runs before the shadow step and the shadow step      *)
(* before the combiner: when the shadow step reads "clouds" the band is    *)
(* there, when the combiner reads "clouds" and "shadows" both are there,   *)
(* and no select of a derived band ever fails.                             *)
SelectErrors == {"select: probability", "select: SCL, B8, clouds",
                 "select: clouds, shadows", "getMapId: no such band"}

C7_DerivedBandsPresentWhenRead ==
    /\ pc = "add_shadow_bands" =>
          /\ HasBand(cur[1], "clouds")
          /\ ~HasBand(cur[1], "shadows")
    /\ pc = "combine" =>
          /\ HasBand(cur[1], "clouds") /\ HasBand(cur[1], "shadows")
          /\ ~HasBand(cur[1], "cloudmask")
    /\ error \notin (SelectErrors \ {"getMapId: no such band"})
    /\ error = "getMapId: no such band" => disp = <<>>

C7_Witness ==
    /\ pc = "combine"
    /\ HasBand(cur[1], "clouds")
    /\ HasBand(cur[1], "shadows")
    /\ error = "none"

(* C8: every run in which no step fails ends with the Map Renderer having  *)
(* been invoked and the rendered interactive map produced.                 *)
C8_RunProducesMap ==
    (pc \in {"end_of_script", "returned"} /\ error = "none") => ret = "Map"

(* C9: fail fast: a failing step ends the run; nothing executes after the  *)
(* failure, the failed step is not run again, nothing is rendered.         *)
C9_State ==
    /\ error # "none" <=> pc = "failed"
    /\ pc = "failed" => (m = <<>> /\ ret = "NoCall" /\ cur = <<>>)

C9_Step ==
    /\ pc # "failed"
    /\ <<pc, k, layer>>' # <<pc, k, layer>>
    /\ pc' = "failed" => (disp' = disp /\ col' = col /\ ret' = ret)

C9_FailFast == [](C9_State) /\ [][C9_Step]_vars

C9_Witness ==
    /\ pc = "failed"
    /\ error = "remote call failed"
    /\ layer > 1
    /\ m = <<>>
    /\ ret = "NoCall"

(* C10: for every integer solar azimuth a in [0,360) the angle handed to   *)
(* the projection is exactly 90 - a, never wrapped: negative for a > 90,   *)
(* within -269..90.                                                        *)
C10_ShadowAngle ==
    (pc \in {"combine", "buffer", "dilate"}
        /\ cur[1].MEAN_SOLAR_AZIMUTH_ANGLE \in 0..359) =>
        LET a == cur[1].MEAN_SOLAR_AZIMUTH_ANGLE
            angle == ddt[1].angle
        IN /\ angle + a = 90
           /\ a > 90 => angle < 0
           /\ angle \in -269..90

C10_Witness ==
    /\ pc = "combine"
    /\ cur[1].MEAN_SOLAR_AZIMUTH_ANGLE = 359
    /\ ddt[1].angle = -269

====
